---- MODULE Spec2Model ----
(***************************************************************************)
(* Model of the PCA notebook 12_principal_components_analysis.ipynb.       *)
(*                                                                         *)
(* The notebook is a kernel session: global names bound to numpy arrays,   *)
(* and cells that rebind the names or write into the arrays in place.      *)
(* Floating point numbers are modelled by exact rationals <<num, den>>     *)
(* (den > 0, lowest terms), extended by nan = <<0,0>> and inf = <<+-1,0>>, *)
(* the values numpy's true division produces for x/0.                      *)
(***************************************************************************)
EXTENDS Integers, Sequences, FiniteSets, TLC

(***************************************************************************)
(* Scalars                                                                 *)
(***************************************************************************)
Abs(i) == IF i < 0 THEN -i ELSE i

Sgn(i) == IF i < 0 THEN -1 ELSE IF i = 0 THEN 0 ELSE 1

RECURSIVE GCD(_, _)
GCD(a, b) == IF b = 0 THEN a ELSE GCD(b, a % b)

\* The float with value n/d; n/0 is inf, -inf or nan as in IEEE division.
Q(n, d) ==
    IF d = 0 THEN <<Sgn(n), 0>>
    ELSE LET g == GCD(Abs(n), Abs(d))
         IN  <<Sgn(d) * (n \div g), Abs(d) \div g>>

Zero == <<0, 1>>
One == <<1, 1>>
NaN == <<0, 0>>

IsFinite(a) == a[2] # 0
IsNaN(a) == a = NaN

QAdd(a, b) ==
    IF IsFinite(a) /\ IsFinite(b) THEN Q(a[1] * b[2] + b[1] * a[2], a[2] * b[2])
    ELSE IF IsNaN(a) \/ IsNaN(b) THEN NaN
    ELSE IF ~IsFinite(a) /\ ~IsFinite(b) THEN (IF a = b THEN a ELSE NaN)
    ELSE IF IsFinite(a) THEN b ELSE a

QNeg(a) == <<-a[1], a[2]>>

QSub(a, b) == QAdd(a, QNeg(b))

QMul(a, b) ==
    IF IsFinite(a) /\ IsFinite(b) THEN Q(a[1] * b[1], a[2] * b[2])
    ELSE <<Sgn(a[1]) * Sgn(b[1]), 0>>

QDiv(a, b) ==
    IF IsFinite(a) /\ IsFinite(b) THEN Q(a[1] * b[2], a[2] * b[1])
    ELSE IF IsFinite(b) THEN <<a[1] * Sgn(b[1]), 0>>
    ELSE IF IsFinite(a) THEN Zero ELSE NaN

\* IEEE comparison: every comparison with nan is false.
QLe(a, b) ==
    IF IsNaN(a) \/ IsNaN(b) THEN FALSE
    ELSE IF IsFinite(a) /\ IsFinite(b) THEN a[1] * b[2] <= b[1] * a[2]
    ELSE IF ~IsFinite(a) THEN (a[1] < 0 \/ a = b)
    ELSE b[1] > 0

QLt(a, b) == QLe(a, b) /\ a # b

(***************************************************************************)
(* Arrays: a vector is a sequence of scalars (shape (n,)), a matrix a      *)
(* sequence of equally long rows (shape (m,n)).                            *)
(***************************************************************************)
NRows(A) == Len(A)

NCols(A) == IF Len(A) = 0 THEN 0 ELSE Len(A[1])

RECURSIVE SumSeq(_)
SumSeq(s) == IF Len(s) = 0 THEN Zero ELSE QAdd(SumSeq(SubSeq(s, 1, Len(s) - 1)), s[Len(s)])

Col(A, j) == [r \in 1..NRows(A) |-> A[r][j]]

Transpose(A) == [j \in 1..NCols(A) |-> Col(A, j)]

Inner(u, v) == SumSeq([i \in 1..Len(u) |-> QMul(u[i], v[i])])

\* np.dot of an (m,p) and a (p,q) matrix; the caller checks the shapes.
MatMul(A, B) ==
    [r \in 1..NRows(A) |-> [j \in 1..NCols(B) |-> Inner(A[r], Col(B, j))]]

Scale(c, A) == [r \in 1..NRows(A) |-> [j \in 1..NCols(A) |-> QMul(c, A[r][j])]]

\* a - v with numpy broadcasting of the (m,w) matrix a against the (n,) vector
\* v: the trailing dimensions must be equal or one of them 1.  <<>> stands
\* for the ValueError "operands could not be broadcast together".
BroadcastOk(w, n) == w = n \/ w = 1 \/ n = 1

BSub(A, v) ==
    LET w == NCols(A)
        n == Len(v)
        c == IF w > n THEN w ELSE n
    IN  IF ~BroadcastOk(w, n) THEN <<>>
        ELSE [r \in 1..NRows(A) |->
                [j \in 1..c |-> QSub(A[r][IF w = 1 THEN 1 ELSE j],
                                     v[IF n = 1 THEN 1 ELSE j])]]

BAdd(A, v) ==
    LET w == NCols(A)
        n == Len(v)
        c == IF w > n THEN w ELSE n
    IN  IF ~BroadcastOk(w, n) THEN <<>>
        ELSE [r \in 1..NRows(A) |->
                [j \in 1..c |-> QAdd(A[r][IF w = 1 THEN 1 ELSE j],
                                     v[IF n = 1 THEN 1 ELSE j])]]

\* np.dot(A, B) for 2-D operands; <<>> stands for the ValueError
\* "shapes not aligned".
Dot(A, B) == IF NCols(A) # NRows(B) THEN <<>> ELSE MatMul(A, B)

(***************************************************************************)
(* Cells 7 and 21: the sample mean and the covariance matrix.              *)
(***************************************************************************)
\* X.mean(axis=0)
Mean(A) == [j \in 1..NCols(A) |-> QDiv(SumSeq(Col(A, j)), Q(NRows(A), 1))]

\* 1./(len(X)-1)*np.dot((X-Xbar).T,(X-Xbar)), for len(X) > 1
Cov(A, mu) ==
    LET C == BSub(A, mu)
    IN  Scale(QDiv(One, Q(NRows(A) - 1, 1)), MatMul(Transpose(C), C))

(***************************************************************************)
(* np.linalg.eig.  The solver is LAPACK's general (non-symmetric) one; its *)
(* documented result is a vector w and a matrix v whose column v[:,i] is a *)
(* unit-length eigenvector for w[i], in no particular order and with no    *)
(* particular sign.  Within an eigenspace of dimension > 1 the columns are *)
(* independent but need not be orthogonal.  The model lets the solver      *)
(* answer with any such pair whose columns lie in Directions.              *)
(***************************************************************************)
Directions ==
    { <<Q(1, 1)>>, <<Q(-1, 1)>>,
      <<Q(1, 1), Q(0, 1)>>, <<Q(-1, 1), Q(0, 1)>>, <<Q(0, 1), Q(1, 1)>>,
      <<Q(3, 5), Q(4, 5)>>, <<Q(-4, 5), Q(3, 5)>>,
      <<Q(1, 1), Q(0, 1), Q(0, 1)>>, <<Q(0, 1), Q(1, 1), Q(0, 1)>>,
      <<Q(0, 1), Q(0, 1), Q(1, 1)>> }

UnitVecs(n) == {v \in Directions : Len(v) = n}

MatVec(A, v) == [r \in 1..NRows(A) |-> Inner(A[r], v)]

\* The eigenvalue of the unit vector v, when v is an eigenvector of S.
Rayleigh(S, v) == Inner(v, MatVec(S, v))

IsEigVec(S, v) ==
    LET l == Rayleigh(S, v)
    IN  MatVec(S, v) = [i \in 1..Len(v) |-> QMul(l, v[i])]

Minor(A, j) ==
    [r \in 1..(NRows(A) - 1) |->
        [c \in 1..(NCols(A) - 1) |-> A[r + 1][IF c < j THEN c ELSE c + 1]]]

RECURSIVE Det(_)
Det(A) ==
    IF NRows(A) = 1 THEN A[1][1]
    ELSE SumSeq([j \in 1..NCols(A) |->
                   QMul(IF j % 2 = 1 THEN A[1][j] ELSE QNeg(A[1][j]),
                        Det(Minor(A, j)))])

\* Every answer eig may give for the symmetric matrix S: [w, v].
EigResults(S) ==
    LET n  == NRows(S)
        ev == {v \in UnitVecs(n) : IsEigVec(S, v)}
    IN  {[w |-> [i \in 1..n |-> Rayleigh(S, cols[i])],
          v |-> Transpose(cols)] :
            cols \in {c \in [1..n -> ev] : Det(c) # Zero}}

(***************************************************************************)
(* lamda.argsort()[::-1]                                                   *)
(***************************************************************************)
Perms(n) == {p \in [1..n -> 1..n] : \A i, j \in 1..n : i # j => p[i] # p[j]}

\* Every index array argsort may return: it sorts w ascending; the default
\* kind is not stable, so equal elements come in either order.
ArgSorts(w) ==
    {p \in Perms(Len(w)) : \A i \in 1..(Len(w) - 1) : QLe(w[p[i]], w[p[i + 1]])}

Reverse(s) == [i \in 1..Len(s) |-> s[Len(s) + 1 - i]]

\* lamda[idx]
Take(w, idx) == [i \in 1..Len(idx) |-> w[idx[i]]]

\* R = R[:,idx] forgotten: the columns stay in the solver's order.
TakeColsUnsorted(A, idx) == A

\* R[:,idx]
TakeCols(A, idx) == [r \in 1..NRows(A) |-> [j \in 1..Len(idx) |-> A[r][idx[j]]]]

(***************************************************************************)
(* The kernel session.  Each global name of the notebook is a variable     *)
(* holding the array bound to it; <<>> is a name not bound yet (no array   *)
(* of the notebook is empty).                                              *)
(***************************************************************************)
VARIABLES
    X,                  \* the data matrix (cells 3, 20 and 36)
    X_test,             \* the held-out data matrix (cell 20)
    Xbar,               \* the sample mean (cells 7 and 21)
    Sigma,              \* the covariance matrix (cells 7 and 21)
    lamda,              \* the eigenvalues, largest first (cells 11 and 22)
    R,                  \* the eigenvectors, as columns (cells 11 and 22)
    X_new,              \* the projected data (cells 11 and 22; written by 17)
    X_new_test,         \* the projected held-out data (cell 22)
    variance_fraction,  \* cell 15
    X_simplified,       \* the reconstruction (cell 17)
    err,                \* the exception the last cell ended with, or "none"
    lapack,             \* what eig and argsort of this build answered so far
    pca_components,     \* pca.components_, one principal axis per row (cell 46)
    pca_mean,           \* pca.mean_ (cell 46)
    X_transformed,      \* cell 46
    X_reconstructed,    \* cell 49
    data_index,         \* cell 49
    n_components,       \* cell 49's loop variable
    X_new_2,            \* the first two coordinates of X_new (cell 30)
    X_new_2_test,       \* the first two coordinates of X_new_test (cell 30)
    X_new_3,            \* the first three coordinates of X_new (cell 30)
    X_new_3_test,       \* the first three coordinates of X_new_test (cell 30)
    views               \* the names bound to a slice of the array that X_new is
                        \* bound to now: they share its memory

libvars == <<pca_components, pca_mean, X_transformed, X_reconstructed,
             data_index, n_components>>

slices == <<X_new_2, X_new_2_test, X_new_3, X_new_3_test>>

vars == <<X, X_test, Xbar, Sigma, lamda, R, X_new, X_new_test,
          variance_fraction, X_simplified, err, lapack, libvars, slices, views>>

Unbound == <<>>

\* Bounds of the model: the samples of a data matrix, of a held-out matrix,
\* and the largest component count cell 49 asks for.
MaxM == 4
MaxTest == 2
MaxL == 3

IntRow(r) == [j \in 1..Len(r) |-> Q(r[j], 1)]

IntMat(A) == [i \in 1..Len(A) |-> IntRow(A[i])]

Min(a, b) == IF a < b THEN a ELSE b

\* The data a session may load: the first m samples of a stream with two
\* features and of a stream with one, two identical samples, three samples
\* on a line that is not an axis, and four samples with three features.
Streams ==
    { << <<0, 0>>, <<2, 0>>, <<1, 1>>, <<1, -1>>, <<0, 0>>, <<1, 0>> >>,
      << <<0>>, <<2>>, <<3>>, <<1>>, <<0>>, <<2>> >> }

TestStreams ==
    { << <<2, 1>>, <<0, 3>>, <<1, 1>>, <<4, 0>> >>,
      << <<5>>, <<1>>, <<0>>, <<2>> >>,
      << <<1, 2, 3>>, <<0, 1, -1>>, <<2, 0, 1>>, <<1, 1, 0>> >> }

Prefixes(S, max) ==
    UNION {{IntMat(SubSeq(s, 1, m)) : m \in 1..Min(max, Len(s))} : s \in S}

DataSets ==
    Prefixes(Streams, MaxM)
        \cup {IntMat(<< <<1, 1>>, <<1, 1>> >>),
              IntMat(<< <<0, 0>>, <<3, 4>>, <<6, 8>> >>),
              IntMat(<< <<4, 1, 2>>, <<-2, 1, 2>>, <<1, 3, 0>>, <<1, -1, 0>> >>)}

TestSets == Prefixes(TestStreams, MaxTest)

Init ==
    /\ X = Unbound
    /\ X_test = Unbound
    /\ Xbar = Unbound
    /\ Sigma = Unbound
    /\ lamda = Unbound
    /\ R = Unbound
    /\ X_new = Unbound
    /\ X_new_test = Unbound
    /\ variance_fraction = Unbound
    /\ X_simplified = Unbound
    /\ err = "none"
    /\ lapack = <<>>
    /\ pca_components = Unbound
    /\ pca_mean = Unbound
    /\ X_transformed = Unbound
    /\ X_reconstructed = Unbound
    /\ data_index = 0
    /\ n_components = 0
    /\ X_new_2 = Unbound
    /\ X_new_2_test = Unbound
    /\ X_new_3 = Unbound
    /\ X_new_3_test = Unbound
    /\ views = {}

\* The model follows a session that loads its data before it fits: the load
\* cells run while no mean is bound.
Loading == Xbar = Unbound /\ pca_mean = Unbound

\* Cell 3: X = np.column_stack((x_1,x_2)), two features.
Cell3 ==
    /\ Loading
    /\ \E D \in DataSets :
          /\ NCols(D) = 2
          /\ X' = D
    /\ err' = "none"
    /\ UNCHANGED <<X_test, Xbar, Sigma, lamda, R, X_new, X_new_test,
                   variance_fraction, X_simplified, lapack, libvars, slices, views>>

\* Cell 20: X,X_test,y,y_test = train_test_split(X,y,test_size=0.33)
Cell20 ==
    /\ Loading
    /\ \E D \in DataSets, T \in TestSets :
          /\ NCols(D) = NCols(T)
          /\ X' = D
          /\ X_test' = T
    /\ err' = "none"
    /\ UNCHANGED <<Xbar, Sigma, lamda, R, X_new, X_new_test,
                   variance_fraction, X_simplified, lapack, libvars, slices, views>>

\* Cells 7 and 21 with the divisor len(X) in place of len(X)-1: nothing
\* raises for a single sample.
MeanCovBiased ==
    /\ X # Unbound
    /\ Xbar' = Mean(X)
    /\ Sigma' = Scale(QDiv(One, Q(NRows(X), 1)),
                      MatMul(Transpose(BSub(X, Xbar')), BSub(X, Xbar')))
    /\ err' = "none"
    /\ UNCHANGED <<X_test, X, lamda, R, X_new, X_new_test,
                   variance_fraction, X_simplified, lapack, libvars, slices, views>>

\* Cells 7 and 21 centring the data in place, X -= Xbar.
MeanCovInPlace ==
    /\ X # Unbound
    /\ Xbar' = Mean(X)
    /\ X' = BSub(X, Xbar')
    /\ IF NRows(X) = 1
         THEN /\ err' = "ZeroDivisionError"
              /\ UNCHANGED Sigma
         ELSE /\ Sigma' = Cov(X, Xbar')
              /\ err' = "none"
    /\ UNCHANGED <<X_test, lamda, R, X_new, X_new_test,
                   variance_fraction, X_simplified, lapack, libvars, slices, views>>

\* Cells 7 and 21 hold the same two statements.  The mean is bound before
\* 1./(len(X)-1) is evaluated, which raises for a single sample.
MeanCov ==
    /\ X # Unbound
    /\ Xbar' = Mean(X)
    /\ IF NRows(X) = 1
         THEN /\ err' = "ZeroDivisionError"
              /\ UNCHANGED Sigma
         ELSE /\ Sigma' = Cov(X, Xbar')
              /\ err' = "none"
    /\ UNCHANGED <<X, X_test, lamda, R, X_new, X_new_test,
                   variance_fraction, X_simplified, lapack, libvars, slices, views>>

Cell7 == MeanCov

Cell21 == MeanCov

\* What eig(S) and the argsort of its eigenvalues answer: the same as before
\* for a matrix this build has been asked about, any valid answer otherwise.
Answers(S) ==
    IF S \in DOMAIN lapack THEN {lapack[S]}
    ELSE UNION {{[w |-> e.w, v |-> e.v, order |-> o] : o \in ArgSorts(e.w)} :
                   e \in EigResults(S)}

Remember(S, a) ==
    [s \in DOMAIN lapack \cup {S} |-> IF s = S THEN a ELSE lapack[s]]

\* np.dot(A-Xbar,R)
Project(A, mu, V) ==
    LET C == BSub(A, mu)
    IN  IF C = <<>> THEN <<>> ELSE Dot(C, V)

\* idx = lamda.argsort(), the reversal forgotten.
SortIndexAscending(a) == a.order

\* idx = lamda.argsort()[::-1]
SortIndex(a) == Reverse(a.order)

\* Cell 11: eigen-decomposition, sort, projection of the data.
Cell11 ==
    /\ Sigma # Unbound
    /\ \E a \in Answers(Sigma) :
          LET idx == SortIndex(a)
              P   == Project(X, Xbar, TakeCols(a.v, idx))
          IN  /\ lapack' = Remember(Sigma, a)
              /\ lamda' = Take(a.w, idx)
              /\ R' = TakeCols(a.v, idx)
              /\ IF P = <<>>
                   THEN err' = "ValueError" /\ UNCHANGED <<X_new, views>>
                   ELSE err' = "none" /\ X_new' = P /\ views' = {}
    /\ UNCHANGED <<X, X_test, Xbar, Sigma, X_new_test,
                   variance_fraction, X_simplified, libvars, slices>>

\* Cell 22 with the reversal of its sort forgotten, cell 11 unchanged.
Cell22Ascending ==
    /\ Sigma # Unbound
    /\ X_test # Unbound
    /\ \E a \in Answers(Sigma) :
          LET idx == a.order
              P   == Project(X, Xbar, TakeCols(a.v, idx))
              T   == Project(X_test, Xbar, TakeCols(a.v, idx))
          IN  /\ lapack' = Remember(Sigma, a)
              /\ lamda' = Take(a.w, idx)
              /\ R' = TakeCols(a.v, idx)
              /\ IF P = <<>>
                   THEN err' = "ValueError" /\ UNCHANGED <<X_new, X_new_test, views>>
                   ELSE /\ X_new' = P
                        /\ views' = {}
                        /\ IF T = <<>>
                             THEN err' = "ValueError" /\ UNCHANGED X_new_test
                             ELSE err' = "none" /\ X_new_test' = T
    /\ UNCHANGED <<X, X_test, Xbar, Sigma,
                   variance_fraction, X_simplified, libvars, slices>>

\* Cell 22: as cell 11, and the projection of the held-out data.
Cell22 ==
    /\ Sigma # Unbound
    /\ X_test # Unbound
    /\ \E a \in Answers(Sigma) :
          LET idx == SortIndex(a)
              P   == Project(X, Xbar, TakeCols(a.v, idx))
              T   == Project(X_test, Xbar, TakeCols(a.v, idx))
          IN  /\ lapack' = Remember(Sigma, a)
              /\ lamda' = Take(a.w, idx)
              /\ R' = TakeCols(a.v, idx)
              /\ IF P = <<>>
                   THEN err' = "ValueError" /\ UNCHANGED <<X_new, X_new_test, views>>
                   ELSE /\ X_new' = P
                        /\ views' = {}
                        /\ IF T = <<>>
                             THEN err' = "ValueError" /\ UNCHANGED X_new_test
                             ELSE err' = "none" /\ X_new_test' = T
    /\ UNCHANGED <<X, X_test, Xbar, Sigma,
                   variance_fraction, X_simplified, libvars, slices>>

\* lamda/lamda.sum()
Fractions(w) == [i \in 1..Len(w) |-> QDiv(w[i], SumSeq(w))]

\* np.cumsum
CumSum(w) == [i \in 1..Len(w) |-> SumSeq(SubSeq(w, 1, i))]

\* Cell 15: variance_fraction = lamda/lamda.sum()
Cell15 ==
    /\ lamda # Unbound
    /\ variance_fraction' = Fractions(lamda)
    /\ err' = "none"
    /\ UNCHANGED <<X, X_test, Xbar, Sigma, lamda, R, X_new, X_new_test,
                   X_simplified, lapack, libvars, slices, views>>

\* X_new[:,1] = 0
ZeroColumn1(A) == [r \in 1..NRows(A) |-> [A[r] EXCEPT ![2] = Zero]]

\* np.dot(Z,R.T) + Xbar
Reconstruct(Z, V, mu) ==
    LET B == Dot(Z, Transpose(V))
    IN  IF B = <<>> THEN <<>> ELSE BAdd(B, mu)

\* Cell 17: the second coordinate is zeroed in place, then the data is
\* reconstructed from what is left.  The write goes to the array, so every
\* slice that shares its memory shows it.
Cell17 ==
    /\ X_new # Unbound
    /\ IF NCols(X_new) < 2
         THEN /\ err' = "IndexError"
              /\ UNCHANGED <<X_new, X_simplified, X_new_2, X_new_3>>
         ELSE /\ X_new' = ZeroColumn1(X_new)
              /\ X_new_2' = IF "X_new_2" \in views THEN ZeroColumn1(X_new_2)
                                                   ELSE X_new_2
              /\ X_new_3' = IF "X_new_3" \in views THEN ZeroColumn1(X_new_3)
                                                   ELSE X_new_3
              /\ LET S == Reconstruct(X_new', R, Xbar)
                 IN  IF S = <<>>
                       THEN err' = "ValueError" /\ UNCHANGED X_simplified
                       ELSE err' = "none" /\ X_simplified' = S
    /\ UNCHANGED <<X, X_test, Xbar, Sigma, lamda, R, X_new_test,
                   variance_fraction, lapack, libvars,
                   X_new_2_test, X_new_3_test, views>>

(***************************************************************************)
(* Cell 30: a classifier on the first two and the first three coordinates  *)
(* of the projected data.                                                  *)
(***************************************************************************)
\* A[:,-j:], the last j coordinates.
KeepLastCols(A, j) ==
    LET w == NCols(A)
        k == Min(j, w)
    IN  [r \in 1..NRows(A) |-> SubSeq(A[r], w - k + 1, w)]

\* A[:,:j]; a slice longer than the array stops at its end.
KeepCols(A, j) == [r \in 1..NRows(A) |-> SubSeq(A[r], 1, Min(j, NCols(A)))]

\* Cell 30, its assignments.  X_new_test is read in the second statement, a
\* NameError if cell 22 has not run.  Between the slices of two and of three
\* coordinates the classifier is fitted and scored (nb.fit, nb.predict,
\* confusion_matrix); these calls check their arguments against the labels
\* y and y_test, which the model does not hold, so the cell may stop there.
Cell30 ==
    /\ X_new # Unbound
    /\ X_new_2' = KeepCols(X_new, 2)
    /\ IF X_new_test = Unbound
         THEN /\ err' = "NameError"
              /\ views' = views \cup {"X_new_2"}
              /\ UNCHANGED <<X_new_2_test, X_new_3, X_new_3_test>>
         ELSE /\ X_new_2_test' = KeepCols(X_new_test, 2)
              /\ \/ /\ err' = "ValueError"
                    /\ views' = views \cup {"X_new_2"}
                    /\ UNCHANGED <<X_new_3, X_new_3_test>>
                 \/ /\ X_new_3' = KeepCols(X_new, 3)
                    /\ X_new_3_test' = KeepCols(X_new_test, 3)
                    /\ views' = {"X_new_2", "X_new_3"}
                    /\ err' = "none"
    /\ UNCHANGED <<X, X_test, Xbar, Sigma, lamda, R, X_new, X_new_test,
                   variance_fraction, X_simplified, lapack, libvars>>

(***************************************************************************)
(* Cells 36 to 49: the same analysis with decomposition.PCA.  The library  *)
(* is not part of the notebook; cell 46 is modelled by what its            *)
(* documentation promises of fit and transform: mean_ is the sample mean,  *)
(* the rows of components_ are orthonormal principal axes, those of        *)
(* largest variance first, as many as the library resolved the request to, *)
(* and transform is (X - mean_) times the transposed components_.          *)
(***************************************************************************)
Identity(n) == [i \in 1..n |-> [j \in 1..n |-> IF i = j THEN One ELSE Zero]]

Orthonormal(V) == MatMul(Transpose(V), V) = Identity(NCols(V))

Descending(w) == \A i \in 1..(Len(w) - 1) : QLe(w[i + 1], w[i])

PrincipalAxes(S) ==
    {Transpose(e.v) : e \in {f \in EigResults(S) : Orthonormal(f.v) /\ Descending(f.w)}}

\* Cell 36: X, y = fetch_openml('mnist_784', version=1, return_X_y=True)
Cell36 ==
    /\ Loading
    /\ X' \in DataSets
    /\ err' = "none"
    /\ UNCHANGED <<X_test, Xbar, Sigma, lamda, R, X_new, X_new_test,
                   variance_fraction, X_simplified, lapack, libvars, slices, views>>

\* Cell 46: pca = decomposition.PCA(0.95,...); pca.fit(X);
\* X_transformed = pca.transform(X)
Cell46 ==
    /\ X # Unbound
    /\ NRows(X) > 1
    /\ \E axes \in PrincipalAxes(Cov(X, Mean(X))), k \in 1..NCols(X) :
          /\ pca_mean' = Mean(X)
          /\ pca_components' = SubSeq(axes, 1, k)
          /\ X_transformed' = Project(X, Mean(X), Transpose(SubSeq(axes, 1, k)))
    /\ err' = "none"
    /\ UNCHANGED <<X, X_test, Xbar, Sigma, lamda, R, X_new, X_new_test,
                   variance_fraction, X_simplified, lapack,
                   X_reconstructed, data_index, n_components, slices, views>>

\* c*l
ScaleVec(c, l) == [j \in 1..Len(c) |-> QMul(c[j], l)]

VecAdd(u, v) == [j \in 1..Len(u) |-> QAdd(u[j], v[j])]

\* if counter<=n_components, one component too many.
LoopTakesInclusive(counter, L) == counter <= L

\* if counter<n_components
LoopTakes(counter, L) == counter < L

\* The loop of cell 49 from the pair numbered counter on:
\*   for c,l in zip(pca.components_,X_transformed[data_index]):
\*       if counter<n_components: X_reconstructed += c*l
\*       counter += 1
RECURSIVE LoopFrom(_, _, _, _, _)
LoopFrom(counter, acc, comps, z, L) ==
    IF counter >= Min(Len(comps), Len(z)) THEN acc
    ELSE LoopFrom(counter + 1,
                  IF LoopTakes(counter, L)
                    THEN VecAdd(acc, ScaleVec(comps[counter + 1], z[counter + 1]))
                    ELSE acc,
                  comps, z, L)

\* X_reconstructed = 0, the loop, X_reconstructed += pca.mean_
ReconstructLoop(comps, z, mu, L) ==
    VecAdd(LoopFrom(0, [j \in 1..Len(mu) |-> Zero], comps, z, L), mu)

\* Cell 49, one round of its outer loop, up to the reshape for the plot.
Cell49 ==
    /\ X_transformed # Unbound
    /\ \E i \in 1..NRows(X_transformed), L \in 1..MaxL :
          /\ data_index' = i
          /\ n_components' = L
          /\ X_reconstructed' =
                ReconstructLoop(pca_components, X_transformed[i], pca_mean, L)
    /\ err' = "none"
    /\ UNCHANGED <<X, X_test, Xbar, Sigma, lamda, R, X_new, X_new_test,
                   variance_fraction, X_simplified, lapack,
                   pca_components, pca_mean, X_transformed, slices, views>>

Next ==
    \/ Cell3
    \/ Cell20
    \/ Cell7
    \/ Cell21
    \/ Cell11
    \/ Cell22
    \/ Cell15
    \/ Cell17

Spec == Init /\ [][Next]_vars

NextLib ==
    \/ Cell36
    \/ Cell46
    \/ Cell49

SpecLib == Init /\ [][NextLib]_vars

\* The analysis of the iris data with its classifier, and cell 17, the one
\* cell that writes into a projection in place.
NextClassify ==
    \/ Cell20
    \/ Cell21
    \/ Cell22
    \/ Cell30
    \/ Cell17

SpecClassify == Init /\ [][NextClassify]_vars

(***************************************************************************)
(* The claims.  The exceptions of the session are Python's: a fit or a     *)
(* transform that the specification says fails with InvalidInput or        *)
(* DimensionMismatch is a cell that ends with an exception, here           *)
(* ZeroDivisionError and ValueError.                                       *)
(***************************************************************************)

\* The projection of the data is the one cell 11 computed, not yet truncated
\* by cell 17.
FullProjection == X_new # Unbound /\ X_new = Project(X, Xbar, R)

\* C1: with all n components kept, reconstructing the projected data,
\* np.dot(X_new,R.T) + Xbar of np.dot(X-Xbar,R), gives the data back
\* element by element, for every data matrix that was fitted.
C1_RoundTrip == FullProjection => Reconstruct(X_new, R, Xbar) = X

\* C2: the eigenvalues of a fitted model are non-increasing in sequence
\* order, in whatever order the solver returned them.
C2_VarianceOrdering == lamda # Unbound => Descending(lamda)

\* A model is fitted whose eigenvalues the solver returned smallest first.
C2_Witness ==
    /\ lamda # Unbound
    /\ Len(lamda) = 2
    /\ Sigma \in DOMAIN lapack
    /\ QLt(lapack[Sigma].w[1], lapack[Sigma].w[2])

\* C3: a fit on a single sample fails: once it was attempted the session
\* holds the exception and no covariance, eigenvalues or eigenvectors.
C3_SingleSampleRejected ==
    (X # Unbound /\ NRows(X) = 1 /\ Xbar # Unbound)
        => /\ err = "ZeroDivisionError"
           /\ Sigma = Unbound
           /\ lamda = Unbound
           /\ R = Unbound
           /\ X_new = Unbound

\* A fit was attempted on a single sample.
C3_Witness == X # Unbound /\ NRows(X) = 1 /\ Xbar # Unbound

\* C4: projecting held-out samples whose length differs from the length of
\* the model's mean fails with an exception and binds no projection.
C4_DimensionMismatch ==
    [][(Cell22 /\ NCols(X_test) # Len(Xbar))
          => (err' = "ValueError" /\ X_new_test' = X_new_test)]_vars

NonDecreasing(w) == \A i \in 1..(Len(w) - 1) : QLe(w[i], w[i + 1])

\* C5: the explained-variance ratios of a fitted model sum to 1 over all n
\* components, and their running sum never decreases and ends at that sum.
C5_RatioSum ==
    variance_fraction # Unbound
        => /\ SumSeq(variance_fraction) = One
           /\ NonDecreasing(CumSum(variance_fraction))
           /\ CumSum(variance_fraction)[Len(variance_fraction)]
                 = SumSeq(variance_fraction)

ZeroFrom(z, L) == [i \in 1..Len(z) |-> IF i <= L THEN z[i] ELSE Zero]

\* mean + the sum over i <= L of coordinate[i] times eigenvector[i]
PartialSum(comps, z, mu, L) ==
    [j \in 1..Len(mu) |->
        QAdd(mu[j], SumSeq([i \in 1..L |-> QMul(z[i], comps[i][j])]))]

\* C10: for L <= k, what cell 49's loop builds from the first L coordinates
\* of a projected sample is what np.dot(Z,R.T) + Xbar gives for the sample
\* with its coordinates after the first L set to zero, and both are the mean
\* plus the first L coordinates times their eigenvectors.
C10_TruncatedReconstruction ==
    [][Cell49 =>
         LET z == X_transformed[data_index']
             L == n_components'
         IN  L <= Len(pca_components)
               => /\ X_reconstructed'
                       = Reconstruct(<<ZeroFrom(z, L)>>,
                                     Transpose(pca_components), pca_mean)[1]
                  /\ X_reconstructed' = PartialSum(pca_components, z, pca_mean, L)]_vars

\* Cell 49 rebuilt a sample from fewer coordinates than the model keeps, and
\* a coordinate it left out is not zero.
C10_Witness ==
    /\ X_reconstructed # Unbound
    /\ n_components < Len(pca_components)
    /\ X_transformed[data_index][n_components + 1] # Zero
    /\ X_reconstructed
          = ReconstructLoop(pca_components, X_transformed[data_index],
                            pca_mean, n_components)

\* The eigenvalues and eigenvectors the session holds are those of the
\* covariance matrix it holds, and the solver's answer for it is on record.
Fitted == lamda # Unbound /\ Sigma \in DOMAIN lapack

Tolerance == Q(1, 1000000)

Near(a, b) ==
    /\ QLe(QSub(a, b), Tolerance)
    /\ QLe(QSub(b, a), Tolerance)

\* C12: in every fitted model each eigenvector has dot product 1 with itself
\* and dot product 0 with every other eigenvector, within 1e-6, repeated
\* eigenvalues included.
C12_Orthonormality ==
    R # Unbound
        => \A i, j \in 1..NCols(R) :
              Near(Inner(Col(R, i), Col(R, j)), IF i = j THEN One ELSE Zero)

\* C13: eigenpairs with equal eigenvalues stay in the order the solver
\* computed them in: of two tied pairs the one with the lower index in the
\* solver's answer comes first in the sorted model.
C13_StableTies ==
    Fitted
        => LET a   == lapack[Sigma]
               idx == SortIndex(a)
           IN  \A i, j \in 1..Len(idx) :
                  (i < j /\ a.w[idx[i]] = a.w[idx[j]]) => idx[i] < idx[j]

\* C14: the sorted eigenvalues and eigenvector columns are the solver's
\* answer under one and the same permutation, and the column at position i is
\* an eigenvector of the covariance matrix for the eigenvalue at position i.
C14_PairingPreserved ==
    Fitted
        => LET a == lapack[Sigma]
           IN  /\ \E p \in Perms(Len(a.w)) :
                     /\ lamda = Take(a.w, p)
                     /\ R = TakeCols(a.v, p)
               /\ \A i \in 1..Len(lamda) :
                     MatVec(Sigma, Col(R, i)) = ScaleVec(Col(R, i), lamda[i])

\* A model is fitted whose sort moved the eigenvalues and the columns: the
\* solver had returned distinct eigenvalues, not largest first.
C14_Witness ==
    /\ Fitted
    /\ lamda # lapack[Sigma].w
    /\ R # lapack[Sigma].v

\* The first j eigenvectors of the model, as columns.
FirstComponents(j) == TakeCols(R, [i \in 1..Min(j, NCols(R)) |-> i])

\* C15: when cell 30 slices a full projection, the first j coordinates of
\* every projected sample are the projection of that sample onto the first j
\* eigenvectors, for each j up to n, for the data and for the held-out data
\* (both centred with Xbar), and row r of the slice belongs to sample r.
C15_PrefixProjection ==
    [][(Cell30 /\ FullProjection) =>
         /\ \A j \in 1..NCols(R) :
               KeepCols(X_new, j) = Project(X, Xbar, FirstComponents(j))
         /\ NRows(X_new_2') = NRows(X)
         /\ \A r \in 1..NRows(X) :
               X_new_2'[r] = Project(<<X[r]>>, Xbar, FirstComponents(2))[1]
         /\ X_new_test # Unbound
               => /\ NRows(X_new_2_test') = NRows(X_test)
                  /\ \A r \in 1..NRows(X_test) :
                        X_new_2_test'[r]
                           = Project(<<X_test[r]>>, Xbar, FirstComponents(2))[1]
         /\ err' = "none"
               => /\ X_new_3' = Project(X, Xbar, FirstComponents(3))
                  /\ X_new_3_test' = Project(X_test, Xbar, FirstComponents(3))]_vars

\* Cell 30 has sliced a full projection of data with more than two features,
\* and of held-out data: the first two coordinates are not all of them.
C15_Witness ==
    /\ FullProjection
    /\ X_new_2 = KeepCols(X_new, 2)
    /\ NCols(X_new_2) < NCols(X_new)
    /\ X_new_2_test # Unbound
    /\ X_new_3 # Unbound
    /\ X_new_2 # KeepLastCols(X_new, 2)

====
